---- MODULE Spec2Model ----
(***************************************************************************)
(* State-machine model of libosdev.                                        *)
(*                                                                         *)
(* Spec: the eopkg root lifecycle, pkg.EopkgManager (InitRoot,             *)
(* FinalizeRoot, Cleanup) with its private helpers startDBUS, killDBUS,    *)
(* copyBaselayout and configureDbus, and disk.CopyFile.  One manager is    *)
(* driven by a sequential caller.  Every call that leaves the process (a   *)
(* spawned command, a mount, a device node) is one step whose outcome,     *)
(* success or failure, is chosen by the host.  The model records, per      *)
(* top-level call, the sequence of such steps (trace) and the value the    *)
(* call returned (ret).                                                    *)
(*                                                                         *)
(* Spec2: two such managers, on different roots, in one process, together  *)
(* with the stream variables of package commands.                          *)
(*                                                                         *)
(* SpecDisk: the functions of package disk that build images,              *)
(* CreateSparseFile, CreateSquashfs, FormatAs and CheckFS, applied to      *)
(* arguments drawn from small sets.                                        *)
(*                                                                         *)
(* SpecBuild: one manager with the package calls AddRepo, InstallGroups    *)
(* and InstallPackages next to the lifecycle calls, for a bounded number   *)
(* of calls.                                                               *)
(***************************************************************************)
EXTENDS Integers, Sequences, FiniteSets, TLC

\* Root paths handed to InitRoot.
Roots == {"/a"}

\* The zero value of EopkgManager.root, before any InitRoot.
NoRoot == ""

AllRoots == Roots \cup {NoRoot}

\* Two builds, each with its own manager; the second one targets other roots.
Builds == {1, 2}

Roots2 == {"/b"}

RootsOf(b) == IF b = 1 THEN Roots ELSE Roots2

\* Most service processes the host lets live at once inside one root.
MaxRunning == 2

\* Number of entries ioutil.ReadDir lists in <root>/usr/share/baselayout.
NumFiles == 2

Files == 1..NumFiles

\* The nil error.
Nil == "nil"

\* filepath.Join of a directory and a relative path.
Join(dir, p) == IF dir = "" THEN p ELSE dir \o "/" \o p

EopkgCacheDirectory == "/var/lib/evobuild/packages"

\* NewEopkgManager: the cache source of a fresh manager.
cacheSource == EopkgCacheDirectory

VARIABLES
    root,          \* EopkgManager.root
    targetMode,    \* EopkgManager.targetMode
    cacheTarget,   \* EopkgManager.cacheTarget
    dbusActive,    \* EopkgManager.dbusActive
    fsys,          \* directories and symlinks InitRoot has created
    mounts,        \* bind mounts in place: source and target
    pidFiles,      \* roots whose var/run/dbus/pid exists
    running,       \* per root: launched and not terminated service processes
    etc,           \* <<root, i>>: entry i of baselayout is written in <root>/etc
    pc,            \* position of the sequential caller
    op,            \* the top-level call in progress, or the last one made
    caller,        \* which call site entered startDBUS / killDBUS
    pending,       \* FinalizeRoot's err while the inline killDBUS runs
    trace,         \* external steps of the top-level call op, in order
    ret,           \* value returned by the last completed top-level call
    call,          \* the startDBUS / killDBUS call in progress or last made
    copies,        \* what CopyFile did per entry in copyBaselayout, this call
    me,            \* the build (manager instance) the variables above belong to
    other,         \* the other build's manager and caller, while it is not running
    streams,       \* commands.stdout / stderr / stdin: who set them last
    calls,         \* top-level calls started so far
    filesystemCommands,  \* disk.filesystemCommands
    checkCommands,       \* disk.checkCommands
    files,         \* logical size of each image file, NoFile if it does not exist
    spawned,       \* external commands run by the last call into package disk
    dcall          \* the last call into package disk and what it returned

vars == <<root, targetMode, cacheTarget, dbusActive, fsys, mounts, pidFiles,
          running, etc, pc, op, caller, pending, trace, ret, call, copies,
          me, other, streams, calls,
          filesystemCommands, checkCommands, files, spawned, dcall>>

manager == <<root, targetMode, cacheTarget, dbusActive>>
host == <<fsys, mounts, pidFiles, running>>

builds == <<me, other, streams, calls>>
disk == <<filesystemCommands, checkCommands, files, spawned, dcall>>

\* What no call on the running build's manager touches.
elsewhere == <<builds, disk>>

\* One external step and how it ended.
Step(a, ok) == [act |-> a, ok |-> ok]

NoCall == [fn |-> "none", active |-> FALSE, from |-> 0, to |-> 0, res |-> Nil]

\* The steps made inside the startDBUS / killDBUS call recorded in call,
\* once it has returned.
CallSteps == SubSeq(trace, call.from + 1, call.to)

Acts(tr) == [i \in 1..Len(tr) |-> tr[i].act]

\* NewEopkgManager(), and a caller that has made no call on it yet.
NewEopkgManager ==
    [root |-> NoRoot, targetMode |-> FALSE, cacheTarget |-> "",
     dbusActive |-> FALSE, pc |-> "idle", op |-> "NewEopkgManager",
     caller |-> "none", pending |-> Nil, trace |-> <<>>, ret |-> Nil,
     call |-> NoCall, copies |-> <<>>]

\* Image files the disk package is asked to create.
FileNames == {"/img/a.img", "/img/b.img"}

NoFile == -1

NoDiskCall == [fn |-> "none"]

\* The state after package initialisation (the init functions of commands
\* and disk) and NewEopkgManager for each build.
Init ==
    /\ me = 1
    /\ other = NewEopkgManager
    /\ streams = [stdout |-> "os.Stdout", stderr |-> "os.Stderr", stdin |-> Nil]
    /\ calls = 0
    /\ filesystemCommands = [fs \in {"ext4"} |-> "formatExt4"]
    /\ checkCommands = [fs \in {"ext4"} |-> "checkExt4"]
    /\ files = [f \in FileNames |-> NoFile]
    /\ spawned = <<>>
    /\ dcall = NoDiskCall
    /\ root = NoRoot
    /\ targetMode = FALSE
    /\ cacheTarget = ""
    /\ dbusActive = FALSE
    /\ fsys = {}
    /\ mounts = {}
    /\ pidFiles = {}
    /\ running = [r \in Roots \cup Roots2 |-> 0]
    /\ etc = {}
    /\ pc = "idle"
    /\ op = "NewEopkgManager"
    /\ caller = "none"
    /\ pending = Nil
    /\ trace = <<>>
    /\ ret = Nil
    /\ call = NoCall
    /\ copies = <<>>

\* commands.ChrootExec(dir, command) can end ok: chroot cannot enter the
\* empty path, so it fails for a manager that has no root yet.
ChrootExec(dir, ok) == ok => dir # NoRoot

\* The mount capability of package disk, as the lifecycle consumes it:
\* bind-mount(source, target) and unmount(target), each ending ok or not.
\* Whether a call ends ok is the host's answer: the mount table is shared
\* with the build driver and every other tool on the host.
BindMount(source, target, ok) ==
    IF ok THEN mounts \cup {[src |-> source, tgt |-> target]} ELSE mounts

Unmount(target, ok) ==
    IF ok THEN {m \in mounts : m.tgt # target} ELSE mounts

\* A top-level call returns v to the build driver.
Return(v) == pc' = "idle" /\ ret' = v

(***************************************************************************)
(* InitRoot                                                                *)
(***************************************************************************)

\* The steps of InitRoot that can fail, in program order.
InitRootSteps ==
    <<"mkdir run/lock", "mkdir var", "mkdir var/cache/eopkg/packages",
      "mkdir cacheSource", "symlink var/lock", "symlink var/run", "bind mount">>

\* The path step i of InitRoot(r) creates (the bind mount creates none).
InitRootPath(r, i) ==
    CASE i = 1 -> Join(r, "run/lock")
      [] i = 2 -> Join(r, "var")
      [] i = 3 -> Join(r, "var/cache/eopkg/packages")
      [] i = 4 -> cacheSource
      [] i = 5 -> Join(r, "var/lock")
      [] i = 6 -> Join(r, "var/run")

\* What step i leaves at that path: a directory, or a symlink to link.
Created(r, i) ==
    [path |-> InitRootPath(r, i),
     link |-> CASE i = 5 -> "../run/lock" [] i = 6 -> "../run" [] OTHER -> ""]

\* An os.Symlink that replaces a link that is there.
MustFailNever(r, i) == FALSE

\* os.Symlink fails when the link name exists; os.MkdirAll does not.
MustFail(r, i) ==
    i \in {5, 6} /\ \E e \in fsys : e.path = InitRootPath(r, i)

\* An InitRoot that goes on after a failed step.
DoneIgnoringError(failAt) == Len(InitRootSteps)

\* Number of steps InitRoot completes when step failAt fails (0: none fails).
Done(failAt) == IF failAt = 0 THEN Len(InitRootSteps) ELSE failAt - 1

\* InitRoot(r) in which step failAt fails (0: no step fails).
InitRootCall ==
    /\ pc = "idle"
    /\ \E r \in RootsOf(me), failAt \in 0..7 :
         LET last == IF failAt = 0 THEN 7 ELSE failAt
             done == Done(failAt)
             target == Join(r, "var/cache/eopkg/packages")
         IN  /\ \A i \in 1..done : ~MustFail(r, i)
             /\ root' = r
             /\ targetMode' = TRUE
             /\ fsys' = fsys \cup {Created(r, i) : i \in (1..done) \cap (1..6)}
             /\ cacheTarget' = IF done >= 6 THEN target ELSE cacheTarget
             /\ mounts' = IF done >= 6 THEN BindMount(cacheSource, target, done = 7)
                                         ELSE mounts
             /\ trace' = [i \in 1..last |-> Step(InitRootSteps[i], i <= done)]
             /\ Return(IF failAt = 0 THEN Nil ELSE InitRootSteps[failAt])
    /\ op' = "InitRoot"
    /\ call' = NoCall
    /\ copies' = <<>>
    /\ UNCHANGED <<dbusActive, pidFiles, running, etc, caller, pending>>

InitRoot == InitRootCall /\ UNCHANGED elsewhere

(***************************************************************************)
(* killDBUS                                                                *)
(***************************************************************************)

\* killDBUS returns res, after n steps of the top-level call, to the call
\* site that entered it.
KillDone(rec, res, n) ==
    /\ call' = [rec EXCEPT !.res = res, !.to = n]
    /\ CASE caller = "Cleanup" -> Return(res)
         [] caller = "configure failed" -> Return(pending)
         [] caller = "FinalizeRoot" ->
               IF res = Nil THEN pc' = "delete-cache" /\ UNCHANGED ret
                            ELSE Return(res)

\* killDBUS without its early return.
NothingToKillNever == FALSE

\* "No sense killing dbus twice"
NothingToKill == ~dbusActive

\* Entry of killDBUS: the early return, else on to os.Open.
KillEnter ==
    /\ pc = "killDBUS"
    /\ LET rec == [fn |-> "killDBUS", active |-> dbusActive,
                   from |-> Len(trace), to |-> Len(trace), res |-> "busy"]
       IN  IF NothingToKill
           THEN KillDone(rec, Nil, Len(trace))
           ELSE call' = rec /\ pc' = "open pid" /\ UNCHANGED ret
    /\ UNCHANGED <<copies, elsewhere>>
    /\ UNCHANGED <<manager, host, etc, op, caller, pending, trace>>

\* dbusActive once os.Open of the pid file has failed.
ActiveAfterOpenFailure == dbusActive

\* os.Open(fpath): succeeds only on an existing pid file.
KillOpen ==
    /\ pc = "open pid"
    /\ \E ok \in BOOLEAN :
         /\ ok => root \in pidFiles
         /\ trace' = Append(trace, Step("open pid", ok))
         /\ IF ok
            THEN pc' = "read pid" /\ UNCHANGED <<call, ret, dbusActive>>
            ELSE /\ KillDone(call, "open pid", Len(trace'))
                 /\ dbusActive' = ActiveAfterOpenFailure
    /\ UNCHANGED <<copies, elsewhere>>
    /\ UNCHANGED <<root, targetMode, cacheTarget, host, etc, op, caller, pending>>

\* A deferred function that resets the flag only after a kill that killed.
ActiveUnlessKilled(killed) == IF killed THEN FALSE ELSE dbusActive

\* dbusActive after the deferred function, which ran after a kill that
\* ended killed (TRUE) or failed (FALSE), or after a failed read.
ActiveAfterDeferred(killed) == FALSE

\* The pid files left by the deferred os.Remove(fpath) of the file that
\* was just opened.
RemovePid == pidFiles \ {root}

\* ioutil.ReadAll(f); on failure the deferred function runs.
KillRead ==
    /\ pc = "read pid"
    /\ \E ok \in BOOLEAN :
         IF ok
         THEN /\ trace' = Append(trace, Step("read pid", TRUE))
              /\ pc' = "kill"
              /\ UNCHANGED <<call, ret, dbusActive, pidFiles>>
         ELSE /\ trace' = trace \o <<Step("read pid", FALSE), Step("remove pid", TRUE)>>
              /\ pidFiles' = RemovePid
              /\ dbusActive' = ActiveAfterDeferred(FALSE)
              /\ KillDone(call, "read pid", Len(trace'))
    /\ UNCHANGED <<copies, elsewhere>>
    /\ UNCHANGED <<root, targetMode, cacheTarget, fsys, mounts, running, etc, op,
                   caller, pending>>

\* kill -9 <pid>, then the deferred function.
KillKill ==
    /\ pc = "kill"
    /\ \E ok \in BOOLEAN :
         /\ ok => running[root] > 0
         /\ running' = IF ok THEN [running EXCEPT ![root] = @ - 1] ELSE running
         /\ trace' = trace \o <<Step("kill", ok), Step("remove pid", TRUE)>>
         /\ pidFiles' = RemovePid
         /\ dbusActive' = ActiveAfterDeferred(ok)
         /\ KillDone(call, IF ok THEN Nil ELSE "kill", Len(trace'))
    /\ UNCHANGED <<copies, elsewhere>>
    /\ UNCHANGED <<root, targetMode, cacheTarget, fsys, mounts, etc, op, caller, pending>>

killDBUS == KillEnter \/ KillOpen \/ KillRead \/ KillKill

(***************************************************************************)
(* startDBUS                                                               *)
(***************************************************************************)

\* A FinalizeRoot that goes on to configure-pending whatever startDBUS
\* returned.
StartDoneUnchecked(rec, res, n) ==
    /\ call' = [rec EXCEPT !.res = res, !.to = n]
    /\ pc' = "configure-pending" /\ UNCHANGED ret

\* startDBUS returns res, after n steps of the top-level call, to
\* FinalizeRoot, its only call site, which goes on to configure-pending or
\* returns the error.
StartDone(rec, res, n) ==
    /\ call' = [rec EXCEPT !.res = res, !.to = n]
    /\ IF res = Nil THEN pc' = "configure-pending" /\ UNCHANGED ret
                    ELSE Return(res)

\* startDBUS without its early return.
AlreadyActiveNever == FALSE

\* if e.dbusActive { return nil }
AlreadyActive == dbusActive

\* Entry of startDBUS: the early return, else on to dbus-uuidgen.
StartEnter ==
    /\ pc = "startDBUS"
    /\ LET rec == [fn |-> "startDBUS", active |-> dbusActive,
                   from |-> Len(trace), to |-> Len(trace), res |-> "busy"]
       IN  IF AlreadyActive
           THEN StartDone(rec, Nil, Len(trace))
           ELSE call' = rec /\ pc' = "dbus-uuidgen" /\ UNCHANGED ret
    /\ UNCHANGED <<copies, elsewhere>>
    /\ UNCHANGED <<manager, host, etc, op, caller, pending, trace>>

\* Where startDBUS goes after dbus-uuidgen --ensure ended ok or not.
AfterUuidgen(ok) ==
    IF ok THEN pc' = "dbus-daemon" /\ UNCHANGED <<call, ret>>
          ELSE StartDone(call, "dbus-uuidgen", Len(trace'))

\* chroot <root> dbus-uuidgen --ensure
StartUuidgen ==
    /\ pc = "dbus-uuidgen"
    /\ \E ok \in BOOLEAN :
         /\ ChrootExec(root, ok)
         /\ trace' = Append(trace, Step("dbus-uuidgen", ok))
         /\ AfterUuidgen(ok)
    /\ UNCHANGED <<copies, elsewhere>>
    /\ UNCHANGED <<manager, host, etc, op, caller, pending>>

\* The flag set before the result of the launch is looked at.
ActiveBeforeLaunchChecked(ok) == TRUE

\* dbusActive after dbus-daemon --system ended ok or not.
ActiveAfterLaunch(ok) == IF ok THEN TRUE ELSE dbusActive

\* chroot <root> dbus-daemon --system: a launched daemon forks into the
\* background and writes its pid file.
StartLaunch ==
    /\ pc = "dbus-daemon"
    /\ \E ok \in BOOLEAN :
         /\ ChrootExec(root, ok)
         /\ ok => running[root] < MaxRunning
         /\ trace' = Append(trace, Step("dbus-daemon", ok))
         /\ running' = IF ok THEN [running EXCEPT ![root] = @ + 1] ELSE running
         /\ pidFiles' = IF ok THEN pidFiles \cup {root} ELSE pidFiles
         /\ dbusActive' = ActiveAfterLaunch(ok)
         /\ StartDone(call, IF ok THEN Nil ELSE "dbus-daemon", Len(trace'))
    /\ UNCHANGED <<copies, elsewhere>>
    /\ UNCHANGED <<root, targetMode, cacheTarget, fsys, mounts, etc, op, caller,
                   pending>>

startDBUS == StartEnter \/ StartUuidgen \/ StartLaunch

(***************************************************************************)
(* FinalizeRoot                                                            *)
(***************************************************************************)

\* A step whose error is dropped.
ThenIgnoringError(ok, next, err) == pc' = next /\ UNCHANGED ret

\* if err != nil { return err }, else on to the next step.
Then(ok, next, err) ==
    IF ok THEN pc' = next /\ UNCHANGED ret ELSE Return(err)

\* A FinalizeRoot that unmounts the root itself.
UnmountsRoot == root

\* What FinalizeRoot unmounts: e.cacheTarget.
Unmounted == cacheTarget

\* disk.GetMountManager().Unmount(e.cacheTarget): the first step of a
\* FinalizeRoot call.
FinUnmountCall ==
    /\ pc = "idle"
    /\ op' = "FinalizeRoot"
    /\ caller' = "FinalizeRoot"
    /\ call' = NoCall
    /\ pending' = Nil
    /\ \E ok \in BOOLEAN :
         /\ trace' = <<Step("umount", ok)>>
         /\ mounts' = Unmount(Unmounted, ok)
         /\ Then(ok, "copyBaselayout", "umount")
    /\ copies' = <<>>
    /\ UNCHANGED <<manager, fsys, pidFiles, running, etc>>

FinUnmount == FinUnmountCall /\ UNCHANGED elsewhere

\* A CopyFile that reports the failure of os.Stat.
CopyFileStatChecked(outcome) == IF outcome = "copied" THEN Nil ELSE "copy file"

\* disk.CopyFile on a source that could not be stat'ed ("no stat"), that
\* could not be opened, created or copied ("error"), or was copied.
CopyFile(outcome) == IF outcome = "error" THEN "copy file" ELSE Nil

CopyOutcomes == {"copied", "no stat", "error"}

\* Number of entries the loop of copyBaselayout gets through: up to and
\* including the first one whose CopyFile returns an error.
RECURSIVE Visited(_, _)
Visited(outcome, i) ==
    IF i > NumFiles THEN NumFiles
    ELSE IF CopyFile(outcome[i]) # Nil THEN i
    ELSE Visited(outcome, i + 1)

\* The error copyBaselayout returns when ReadDir ended listed and the
\* entries copy as outcome says.
copyBaselayout(listed, outcome) ==
    IF ~listed THEN "read dir"
    ELSE LET n == Visited(outcome, 1)
         IN  IF n = 0 THEN Nil ELSE CopyFile(outcome[n])

\* The entries of <root>/etc written by that copyBaselayout.
Written(listed, outcome) ==
    IF ~listed THEN {}
    ELSE {<<root, i>> : i \in {j \in 1..Visited(outcome, 1) : outcome[j] = "copied"}}

\* What CopyFile did for each entry that copyBaselayout handed to it.
Copies(listed, outcome) ==
    IF ~listed THEN <<>>
    ELSE [i \in 1..Visited(outcome, 1) |-> outcome[i]]

\* e.copyBaselayout()
FinCopyBaselayout ==
    /\ pc = "copyBaselayout"
    /\ \E listed \in BOOLEAN, outcome \in [Files -> CopyOutcomes] :
         LET err == copyBaselayout(listed, outcome)
         IN  /\ trace' = Append(trace, Step("copyBaselayout", err = Nil))
             /\ etc' = etc \cup Written(listed, outcome)
             /\ copies' = Copies(listed, outcome)
             /\ Then(err = Nil, "ldconfig", err)
    /\ UNCHANGED elsewhere
    /\ UNCHANGED <<manager, host, op, caller, pending, call>>

\* One step of FinalizeRoot that runs a command in the chroot or creates a
\* device node, and changes nothing the model tracks.
FinStep(at, next) ==
    /\ pc = at
    /\ \E ok \in BOOLEAN :
         /\ ChrootExec(root, ok)
         /\ trace' = Append(trace, Step(at, ok))
         /\ Then(ok, next, at)
    /\ UNCHANGED <<copies, elsewhere>>
    /\ UNCHANGED <<manager, host, etc, op, caller, pending, call>>

\* commands.ChrootExec(e.root, "ldconfig")
FinLdconfig == FinStep("ldconfig", "groupadd")

\* configureDbus: commands.AddGroup(e.root, "messagebus", 18)
FinAddGroup == FinStep("groupadd", "useradd")

\* configureDbus: commands.AddSystemUser(e.root, "messagebus", ...)
FinAddSystemUser == FinStep("useradd", "mknod random")

configureDbus == FinAddGroup \/ FinAddSystemUser

\* disk.CreateDeviceNode(e.root, disk.DevNodeRandom)
FinDevNodeRandom == FinStep("mknod random", "mknod urandom")

\* disk.CreateDeviceNode(e.root, disk.DevNodeURandom), then e.startDBUS()
FinDevNodeURandom == FinStep("mknod urandom", "startDBUS")

\* Where FinalizeRoot goes after eopkg configure-pending ended ok or not:
\* to the killDBUS of line 150, or to the inline killDBUS of line 146 with
\* the error kept for the return.
AfterConfigure(ok) ==
    /\ pc' = "killDBUS"
    /\ caller' = IF ok THEN "FinalizeRoot" ELSE "configure failed"
    /\ pending' = IF ok THEN Nil ELSE "configure-pending"

\* commands.ChrootExec(e.root, "eopkg configure-pending")
FinConfigurePending ==
    /\ pc = "configure-pending"
    /\ \E ok \in BOOLEAN :
         /\ ChrootExec(root, ok)
         /\ trace' = Append(trace, Step("configure-pending", ok))
         /\ AfterConfigure(ok)
    /\ UNCHANGED <<copies, elsewhere>>
    /\ UNCHANGED <<manager, host, etc, op, ret, call>>

\* commands.ChrootExec(e.root, "eopkg delete-cache")
FinDeleteCache ==
    /\ pc = "delete-cache"
    /\ \E ok \in BOOLEAN :
         /\ ChrootExec(root, ok)
         /\ trace' = Append(trace, Step("delete-cache", ok))
         /\ Return(IF ok THEN Nil ELSE "delete-cache")
    /\ UNCHANGED <<copies, elsewhere>>
    /\ UNCHANGED <<manager, host, etc, op, caller, pending, call>>

\* The steps of FinalizeRoot after the unmount.
FinalizeRootSteps ==
    \/ FinCopyBaselayout
    \/ FinLdconfig
    \/ configureDbus
    \/ FinDevNodeRandom
    \/ FinDevNodeURandom
    \/ startDBUS
    \/ FinConfigurePending
    \/ killDBUS
    \/ FinDeleteCache

FinalizeRoot == FinUnmount \/ FinalizeRootSteps

(***************************************************************************)
(* Cleanup                                                                 *)
(***************************************************************************)

\* A Cleanup that also releases the cache binding.
CleanupUnmounts == Unmount(cacheTarget, TRUE)

\* The mounts after Cleanup has been entered: it makes no call on the mount
\* manager.
CleanupMounts == mounts

\* Cleanup: return e.killDBUS()
CleanupCall ==
    /\ pc = "idle"
    /\ op' = "Cleanup"
    /\ caller' = "Cleanup"
    /\ pc' = "killDBUS"
    /\ trace' = <<>>
    /\ call' = NoCall
    /\ pending' = Nil
    /\ copies' = <<>>
    /\ mounts' = CleanupMounts
    /\ UNCHANGED <<manager, fsys, pidFiles, running, etc, ret>>

Cleanup == CleanupCall /\ UNCHANGED elsewhere

Next == InitRoot \/ FinalizeRoot \/ Cleanup

Spec == Init /\ [][Next]_vars

(***************************************************************************)
(* Two builds in one process                                               *)
(*                                                                         *)
(* Each build has its own EopkgManager and its own sequential caller, on   *)
(* its own roots; their steps interleave in any order.  The manager and    *)
(* caller variables hold the build that is running; other holds the build  *)
(* that is not, and Switch exchanges them.  The host and the variables of  *)
(* package commands are the process's, whichever build runs.               *)
(***************************************************************************)

\* Calls made on the managers and on package commands, by all builds
\* together.
MaxCalls == 3

\* The manager and the caller of the running build.
Context ==
    [root |-> root, targetMode |-> targetMode, cacheTarget |-> cacheTarget,
     dbusActive |-> dbusActive, pc |-> pc, op |-> op, caller |-> caller,
     pending |-> pending, trace |-> trace, ret |-> ret, call |-> call,
     copies |-> copies]

\* The scheduler lets the other build run.
Switch ==
    /\ me' = CHOOSE b \in Builds : b # me
    /\ other' = Context
    /\ root' = other.root
    /\ targetMode' = other.targetMode
    /\ cacheTarget' = other.cacheTarget
    /\ dbusActive' = other.dbusActive
    /\ pc' = other.pc
    /\ op' = other.op
    /\ caller' = other.caller
    /\ pending' = other.pending
    /\ trace' = other.trace
    /\ ret' = other.ret
    /\ call' = other.call
    /\ copies' = other.copies
    /\ UNCHANGED <<host, etc, streams, calls, disk>>

\* The writer (reader) a build hands to SetStdout, SetStderr or SetStdin:
\* its own log.
Log(b) == IF b = 1 THEN "log 1" ELSE "log 2"

\* commands.SetStdout(w), called by the running build.
SetStdout ==
    /\ calls < MaxCalls
    /\ calls' = calls + 1
    /\ streams' = [streams EXCEPT !.stdout = Log(me)]
    /\ UNCHANGED <<manager, host, etc, pc, op, caller, pending, trace, ret,
                   call, copies, me, other, disk>>

\* commands.SetStderr(w)
SetStderr ==
    /\ calls < MaxCalls
    /\ calls' = calls + 1
    /\ streams' = [streams EXCEPT !.stderr = Log(me)]
    /\ UNCHANGED <<manager, host, etc, pc, op, caller, pending, trace, ret,
                   call, copies, me, other, disk>>

\* commands.SetStdin(r)
SetStdin ==
    /\ calls < MaxCalls
    /\ calls' = calls + 1
    /\ streams' = [streams EXCEPT !.stdin = Log(me)]
    /\ UNCHANGED <<manager, host, etc, pc, op, caller, pending, trace, ret,
                   call, copies, me, other, disk>>

\* The streams the commands of build b run with: execHelper reads the
\* package's variables, whoever calls it.
StreamsOf(b) == streams

\* A top-level call on the running build's manager, counted.
Counted(Call) ==
    /\ calls < MaxCalls
    /\ calls' = calls + 1
    /\ Call
    /\ UNCHANGED <<me, other, streams, disk>>

InitRootOfBuild == Counted(InitRootCall)
FinalizeRootOfBuild == Counted(FinUnmountCall)
CleanupOfBuild == Counted(CleanupCall)

Next2 ==
    \/ Switch
    \/ SetStdout
    \/ SetStderr
    \/ SetStdin
    \/ InitRootOfBuild
    \/ FinalizeRootOfBuild
    \/ FinalizeRootSteps
    \/ CleanupOfBuild

Spec2 == Init /\ [][Next2]_vars

(***************************************************************************)
(* Package commands: running an external program                           *)
(***************************************************************************)

\* What no call into package disk touches.
lifecycle == <<manager, host, etc, pc, op, caller, pending, trace, ret, call,
               copies, builds>>

\* How running a program can end: it exits with status 0 ("ok"), it exits
\* with another status ("exit"), or exec.LookPath does not find it.
ExecOutcomes == {"ok", "exit", "not found"}

\* The error execHelper followed by c.Run() returns.
ExecError(o) ==
    CASE o = "ok" -> Nil
      [] o = "exit" -> "exit status"
      [] o = "not found" -> "executable file not found"

\* The processes ExecStdoutArgsDir(dir, command, args) spawns: none when
\* execHelper fails, else one, with the package's streams.
ExecStdoutArgsDir(dir, command, args, o) ==
    IF o = "not found" THEN <<>>
    ELSE <<[command |-> command, dir |-> dir, args |-> args, streams |-> streams]>>

\* ExecStdoutArgs leaves c.Dir empty: the process's own working directory.
ExecStdoutArgs(command, args, o) == ExecStdoutArgsDir("", command, args, o)

(***************************************************************************)
(* Package calls: AddRepo, InstallGroups, InstallPackages                  *)
(***************************************************************************)

\* e.eopkgExecRoot(args): one run of eopkg, on the root when targetMode is
\* set; fn is the method that made the call.
eopkgExecRoot(fn) ==
    /\ pc = "idle"
    /\ op' = fn
    /\ call' = NoCall
    /\ copies' = <<>>
    /\ \E o \in ExecOutcomes :
         /\ trace' = <<Step("eopkg", o = "ok")>>
         /\ Return(ExecError(o))
    /\ UNCHANGED <<manager, host, etc, caller, pending>>

AddRepo == Counted(eopkgExecRoot("AddRepo"))

InstallGroups == Counted(eopkgExecRoot("InstallGroups"))

InstallPackages == Counted(eopkgExecRoot("InstallPackages"))

\* The methods of Manager that run the package manager on the root.
PackageCalls == {"AddRepo", "InstallGroups", "InstallPackages"}

\* The whole lifecycle of one build: prepare, package calls, finalize,
\* cleanup, in any order the build driver makes its calls.
NextBuild ==
    \/ InitRootOfBuild
    \/ AddRepo
    \/ InstallGroups
    \/ InstallPackages
    \/ FinalizeRootOfBuild
    \/ FinalizeRootSteps
    \/ CleanupOfBuild

SpecBuild == Init /\ [][NextBuild]_vars

(***************************************************************************)
(* Package disk: CreateSparseFile                                          *)
(***************************************************************************)

\* Sizes are computed in blocks of 2^BlockBits bytes; 1000 * 1000 is a
\* whole number of them.
BlockBits == 6

Block == 2 ^ BlockBits

\* Width of Go's int on the build taken here (GOARCH=386, arm): the type of
\* nMegabytes and of the product.
IntBits == 32

\* A megabyte of 1024 * 1024 bytes.
Mebibyte == 1024 * 1024

\* "New megabytes, not old megabytes (1000, not 1024)"
Megabyte == 1000 * 1000

\* sz := int64(nMegabytes * 1000 * 1000): the product wraps at IntBits bits
\* before it is widened.
Sz(n) ==
    LET modulus == 2 ^ (IntBits - BlockBits)
        blocks == (n * (Megabyte \div Block)) % modulus
    IN  IF blocks >= modulus \div 2 THEN (blocks - modulus) * Block
                                    ELSE blocks * Block

\* Sizes asked of CreateSparseFile.
NMegabytes == {-1, 0, 1, 10, 2147, 2148, 4295}

\* CreateSparseFile(filename, nMegabytes)
CreateSparseFile ==
    /\ \E filename \in FileNames, n \in NMegabytes, opened, truncated \in BOOLEAN :
         LET sz == Sz(n)
             err == IF ~opened THEN "open"
                    ELSE IF sz < 0 THEN "ftruncate: invalid argument"
                    ELSE IF ~truncated THEN "ftruncate"
                    ELSE Nil
         IN  /\ files' = [files EXCEPT ![filename] =
                              IF ~opened THEN @ ELSE IF err = Nil THEN sz ELSE 0]
             /\ dcall' = [fn |-> "CreateSparseFile", filename |-> filename,
                          n |-> n, before |-> files[filename], err |-> err]
    /\ spawned' = <<>>
    /\ UNCHANGED <<lifecycle, filesystemCommands, checkCommands>>

(***************************************************************************)
(* Package disk: CreateSquashfs                                            *)
(***************************************************************************)

\* A path is the sequence of its elements; an absolute one starts with "/".
IsAbs(p) == p[1] = "/"

\* The working directory of the process.
Getwd == <<"/", "build">>

\* filepath.Abs of a path (when os.Getwd does not fail).
Abs(p) == IF IsAbs(p) THEN p ELSE Getwd \o p

\* filepath.Dir: all but the last element.
Dir(p) == IF Len(p) <= 1 THEN p ELSE SubSeq(p, 1, Len(p) - 1)

\* Trees handed to CreateSquashfs, and the image files asked of it.
SourcePaths == {<<"/", "work", "rootfs">>, <<"rootfs">>}
OutputFiles == {<<"/", "work", "root.squashfs">>, <<"/", "out", "root.squashfs">>,
                <<"root.squashfs">>}

CompressionGzip == "gzip"
CompressionXZ == "xz"

\* Values of CompressionType a caller can pass: it is a string type.
CompressionTypes == {CompressionGzip, CompressionXZ, "lz4", ""}

UnknownCompression == <<"error">>

\* A GetSquashfsArgs whose default case falls back to gzip.
GetSquashfsArgsDefaultGzip(compressionType) ==
    IF compressionType = CompressionXZ THEN <<"-comp", "xz">>
    ELSE <<"-comp", "gzip">>

\* GetSquashfsArgs: the arguments, or UnknownCompression for its error.
GetSquashfsArgs(compressionType) ==
    CASE compressionType = CompressionGzip -> <<"-comp", "gzip">>
      [] compressionType = CompressionXZ -> <<"-comp", "xz">>
      [] OTHER -> UnknownCompression

\* What os.Stat(path) finds.
StatOutcomes == {"dir", "file", "error"}

\* CreateSquashfs(path, outputFile, compressionType)
CreateSquashfs ==
    /\ \E path \in SourcePaths, outputFile \in OutputFiles,
          compressionType \in CompressionTypes, wd \in BOOLEAN,
          st \in StatOutcomes, o \in ExecOutcomes :
         LET dirName == Dir(Abs(path))
             execArgs == GetSquashfsArgs(compressionType)
             command == <<path, outputFile>>
                          \o (IF st = "dir" THEN <<"-keep-as-directory">> ELSE <<>>)
                          \o execArgs
             early == IF ~wd THEN "getwd"
                      ELSE IF st = "error" THEN "stat"
                      ELSE IF execArgs = UnknownCompression
                           THEN "Unknown compression type"
                      ELSE Nil
         IN  /\ wd \/ ~IsAbs(path)
             /\ spawned' = IF early # Nil THEN <<>>
                           ELSE ExecStdoutArgsDir(dirName, "mksquashfs", command, o)
             /\ dcall' = [fn |-> "CreateSquashfs", path |-> path,
                          outputFile |-> outputFile,
                          compressionType |-> compressionType,
                          err |-> IF early # Nil THEN early ELSE ExecError(o)]
    /\ UNCHANGED <<lifecycle, filesystemCommands, checkCommands, files>>

(***************************************************************************)
(* Package disk: FormatAs and CheckFS                                      *)
(***************************************************************************)

\* Filesystem names a caller passes.
Filesystems == {"ext4", "btrfs", ""}

NotRegistered == "not registered"

\* A lookup that takes the ext4 entry for any name.
LookupAsExt4(registry, filesystem) == registry["ext4"]

\* command, ok := registry[filesystem]
Lookup(registry, filesystem) ==
    IF filesystem \in DOMAIN registry THEN registry[filesystem]
    ELSE NotRegistered

\* The two commands each registered function runs, in order.
CommandsOf(function, filename) ==
    CASE function = "formatExt4" ->
           <<[command |-> "mkfs", args |-> <<"-t", "ext4", "-F", filename>>],
             [command |-> "tune2fs", args |-> <<"-c0", "-i0", filename>>]>>
      [] function = "checkExt4" ->
           <<[command |-> "e2fsck", args |-> <<"-y", filename>>],
             [command |-> "e2fsck", args |-> <<"-y", "-f", filename>>]>>

\* formatExt4 / checkExt4: the second command runs only if the first ended
\* nil, and its error is the function's.
Invoke(function, filename, o) ==
    LET c == CommandsOf(function, filename)
        first == ExecStdoutArgs(c[1].command, c[1].args, o[1])
    IN  IF ExecError(o[1]) # Nil
        THEN [spawned |-> first, err |-> ExecError(o[1])]
        ELSE [spawned |-> first \o ExecStdoutArgs(c[2].command, c[2].args, o[2]),
              err |-> ExecError(o[2])]

\* FormatAs (fn = "FormatAs", its registry and message) or CheckFS.
Dispatch(fn, registry, message) ==
    /\ \E filename \in FileNames, filesystem \in Filesystems,
          o \in ExecOutcomes \X ExecOutcomes :
         LET command == Lookup(registry, filesystem)
             r == IF command = NotRegistered
                  THEN [spawned |-> <<>>, err |-> <<message, filesystem>>]
                  ELSE Invoke(command, filename, o)
         IN  /\ spawned' = r.spawned
             /\ dcall' = [fn |-> fn, filename |-> filename,
                          filesystem |-> filesystem, command |-> command,
                          err |-> r.err]
    /\ UNCHANGED <<lifecycle, filesystemCommands, checkCommands, files>>

FormatAs ==
    Dispatch("FormatAs", filesystemCommands, "Cannot format with unknown filesystem")

CheckFS ==
    Dispatch("CheckFS", checkCommands, "Cannot check with unknown filesystem")

NextDisk == CreateSparseFile \/ CreateSquashfs \/ FormatAs \/ CheckFS

SpecDisk == Init /\ [][NextDisk]_vars

(***************************************************************************)
(* Properties                                                              *)
(***************************************************************************)

\* The steps killDBUS can make.
KillActs == {"open pid", "read pid", "kill", "remove pid"}

\* startDBUS / killDBUS has returned (to FinalizeRoot or to Cleanup).
StartReturned == call.fn = "startDBUS" /\ call.res # "busy"
StopReturned == call.fn = "killDBUS" /\ call.res # "busy"

\* FinalizeRoot / Cleanup has returned to the build driver.
FinalizeReturned == pc = "idle" /\ op = "FinalizeRoot"
CleanupReturned == pc = "idle" /\ op = "Cleanup"

\* C1: a killDBUS entered with the flag active has the flag inactive when it
\* returns, whatever made it return (a pid file that cannot be opened or
\* read included).
C1_StopAlwaysClearsFlag == (StopReturned /\ call.active) => ~dbusActive

\* C2: when FinalizeRoot returns the error of a failed configure-pending, a
\* killDBUS has been attempted and the flag is inactive.
C2_Step7FailureStopsService ==
    (FinalizeReturned /\ ret = "configure-pending")
        => (StopReturned /\ ~dbusActive)

\* C3: whenever Cleanup has returned it has made only steps of a service
\* stop and the flag is inactive (so that a further Cleanup finds nothing to
\* do).
C3_CleanupLeavesInactive ==
    CleanupReturned
        => /\ \A i \in 1..Len(trace) : trace[i].act \in KillActs
           /\ ~dbusActive

\* C4: no root ever holds more than one launched and not terminated service
\* process.
C4_AtMostOneInstance == \A r \in Roots : running[r] <= 1

\* C5: a startDBUS entered with the flag active (an earlier startDBUS
\* succeeded) returns nil without making any step and leaves the flag
\* active; one entered with the flag inactive that returns nil has run
\* dbus-uuidgen once and launched dbus-daemon once.
C5_StartIsIdempotent ==
    StartReturned =>
        IF call.active
        THEN call.res = Nil /\ CallSteps = <<>> /\ dbusActive
        ELSE call.res = Nil
                => /\ CallSteps = <<Step("dbus-uuidgen", TRUE), Step("dbus-daemon", TRUE)>>
                   /\ dbusActive

\* C5 witness: a second startDBUS returned nil while FinalizeRoot goes on.
C5_SecondStartReached ==
    StartReturned /\ call.active /\ pc = "configure-pending"

\* C6: a killDBUS entered with the flag inactive returns nil, makes no step
\* (no open, read, kill or remove) and leaves the flag inactive.
C6_StopInactiveIsNoOp ==
    (StopReturned /\ ~call.active)
        => call.res = Nil /\ CallSteps = <<>> /\ ~dbusActive

\* C6 witness: Cleanup on an inactive supervisor has returned.
C6_StopInactiveReached ==
    CleanupReturned /\ StopReturned /\ ~call.active /\ call.res = Nil

\* C7: a startDBUS that returns an error leaves the flag inactive, the error
\* is that of the failed sub-step and is what FinalizeRoot returns, and after
\* a failed dbus-uuidgen no dbus-daemon is launched.
C7_StartFailureLeavesInactive ==
    (StartReturned /\ call.res # Nil)
        => /\ ~dbusActive
           /\ FinalizeReturned /\ ret = call.res
           /\ \/ /\ call.res = "dbus-uuidgen"
                 /\ CallSteps = <<Step("dbus-uuidgen", FALSE)>>
              \/ /\ call.res = "dbus-daemon"
                 /\ CallSteps = <<Step("dbus-uuidgen", TRUE), Step("dbus-daemon", FALSE)>>

\* C7 witness: the launch failed.
C7_LaunchFailureReached == StartReturned /\ call.res = "dbus-daemon"

FinalizeRootOrder ==
    <<"umount", "copyBaselayout", "ldconfig", "groupadd", "useradd",
      "mknod random", "mknod urandom", "dbus-uuidgen", "dbus-daemon",
      "configure-pending", "open pid", "read pid", "kill", "remove pid",
      "delete-cache">>

\* C9: a FinalizeRoot that returns nil has made every external step exactly
\* once, in program order.
C9_SuccessfulFinalizeOrder ==
    (FinalizeReturned /\ ret = Nil) => Acts(trace) = FinalizeRootOrder

\* Position of a step in the program order.
Pos(a) == CHOOSE i \in 1..Len(FinalizeRootOrder) : FinalizeRootOrder[i] = a

\* The error a failed step makes its caller return.
ErrorsOf(a) == IF a = "copyBaselayout" THEN {"read dir", "copy file"} ELSE {a}

\* C10: a FinalizeRoot that returns an error returns the error of the first
\* step that failed; after that step it makes no further step, except the
\* deferred pid file removal of a failed stop and the inline killDBUS after a
\* failed configure-pending, whose result is not returned; every step it
\* made is a forward step of FinalizeRoot, none twice, in program order.
C10_FailureShortCircuits ==
    (FinalizeReturned /\ ret # Nil) =>
        /\ \A i \in 1..Len(trace) :
             /\ trace[i].act \in {FinalizeRootOrder[n] : n \in 1..Len(FinalizeRootOrder)}
             /\ \A j \in 1..Len(trace) : i < j => Pos(trace[i].act) < Pos(trace[j].act)
        /\ \E k \in 1..Len(trace) :
             /\ ~trace[k].ok
             /\ \A j \in 1..(k - 1) : trace[j].ok
             /\ ret \in ErrorsOf(trace[k].act)
             /\ \A j \in (k + 1)..Len(trace) :
                  \/ /\ trace[j].act = "remove pid"
                     /\ trace[k].act \in {"read pid", "kill"}
                  \/ /\ trace[k].act = "configure-pending"
                     /\ trace[j].act \in KillActs

\* C10 witness: configure-pending failed, the inline kill failed as well, and
\* FinalizeRoot returned the error of configure-pending.
C10_InlineStopFailureReached ==
    /\ FinalizeReturned /\ ret = "configure-pending"
    /\ Step("kill", FALSE) \in {trace[i] : i \in 1..Len(trace)}

\* C11: FinalizeRoot runs configure-pending only with the flag active, after
\* a startDBUS that returned nil and before any step of a stop; it runs
\* delete-cache only with the flag inactive, after a killDBUS that returned
\* nil having killed the service.
C11_HooksRunBetweenStartAndStop ==
    /\ pc = "configure-pending"
          => dbusActive /\ StartReturned /\ call.res = Nil
    /\ pc = "delete-cache"
          => ~dbusActive /\ StopReturned /\ call.res = Nil
    /\ \A i \in 1..Len(trace) :
         /\ trace[i].act = "configure-pending"
               => \A j \in 1..(i - 1) : trace[j].act \notin KillActs
         /\ trace[i].act = "delete-cache"
               => /\ ~dbusActive
                  /\ \E j \in 1..(i - 1) : trace[j] = Step("kill", TRUE)

\* C11 witness: a FinalizeRoot has run both configure-pending and
\* delete-cache.
C11_DeleteCacheReached ==
    /\ FinalizeReturned
    /\ \E i, j \in 1..Len(trace) :
         trace[i].act = "configure-pending" /\ trace[j].act = "delete-cache"

\* C14: a FinalizeRoot on a manager on which InitRoot was never called
\* returns a state error and makes no step.
C14_FinalizeBeforeInitRootRejected ==
    (op = "FinalizeRoot" /\ ~targetMode)
        => trace = <<>> /\ (pc = "idle" => ret = "state error")

\* C20: a CopyFile whose source cannot be stat'ed returns nil and leaves the
\* destination as it was; copyBaselayout goes on to the next entry, and
\* fails only if some entry's copy reports an error.
C20_StatFailureIsSkipped ==
    [][pc = "copyBaselayout" =>
         /\ \A i \in 1..Len(copies') :
              copies'[i] = "no stat" =>
                  /\ CopyFile(copies'[i]) = Nil
                  /\ (<<root, i>> \in etc') = (<<root, i>> \in etc)
                  /\ i < NumFiles => Len(copies') > i
         /\ (copies' # <<>> /\ \A i \in 1..Len(copies') : copies'[i] # "error")
                => /\ Len(copies') = NumFiles
                   /\ trace'[Len(trace')] = Step("copyBaselayout", TRUE)
                   /\ pc' = "ldconfig"]_vars

C20_CopiedAfterStatFailure ==
    /\ pc = "ldconfig"
    /\ Len(copies) = NumFiles
    /\ copies[1] = "no stat"
    /\ copies[NumFiles] = "copied"
    /\ <<root, 1>> \notin etc
    /\ <<root, NumFiles>> \in etc

\* The mount point of the cache binding inside the manager's root.
CacheMountPoint == Join(root, "var/cache/eopkg/packages")

CacheMounted == \E m \in mounts : m.tgt = CacheMountPoint

\* C12: when FinalizeRoot has returned nil, nothing is mounted at
\* <root>/var/cache/eopkg/packages; the unmount is the first step of every
\* FinalizeRoot, and when it fails it is the only step and its error is
\* what FinalizeRoot returns.
C12_FinalizedRootHasNoCacheBinding ==
    op = "FinalizeRoot" =>
        /\ trace # <<>> /\ trace[1].act = "umount"
        /\ \A i \in 2..Len(trace) : trace[i].act # "umount"
        /\ ~trace[1].ok => pc = "idle" /\ ret = "umount" /\ Len(trace) = 1
        /\ (pc = "idle" /\ ret = Nil) => trace[1].ok /\ ~CacheMounted

C12_FinalizedAfterInitRoot ==
    /\ FinalizeReturned /\ ret = Nil
    /\ cacheTarget = CacheMountPoint
    /\ [path |-> CacheMountPoint, link |-> ""] \in fsys
    /\ ~CacheMounted

\* C13: an InitRoot that returns nil has made all its steps and leaves the
\* required directories, both symlinks and the cache source in place, with
\* the cache source bound at <root>/var/cache/eopkg/packages; one that
\* returns an error returns that of its last step, every step before it
\* having ended ok, mounts nothing unless the failed step is the bind
\* mount itself (which mounts nothing either), and in both cases removes no
\* path and no mount that was there.
C13_InitRootContract ==
    [][(pc = "idle" /\ op' = "InitRoot") =>
         LET n == Len(trace')
             target == Join(root', "var/cache/eopkg/packages")
         IN  /\ pc' = "idle"
             /\ fsys \subseteq fsys' /\ mounts \subseteq mounts'
             /\ n >= 1 /\ Acts(trace') = SubSeq(InitRootSteps, 1, n)
             /\ \A i \in 1..(n - 1) : trace'[i].ok
             /\ ret' = Nil =>
                   /\ n = Len(InitRootSteps) /\ trace'[n].ok
                   /\ \A d \in {"run/lock", "var/cache/eopkg/packages"} :
                        [path |-> Join(root', d), link |-> ""] \in fsys'
                   /\ [path |-> Join(root', "var/lock"), link |-> "../run/lock"]
                         \in fsys'
                   /\ [path |-> Join(root', "var/run"), link |-> "../run"] \in fsys'
                   /\ [path |-> cacheSource, link |-> ""] \in fsys'
                   /\ [src |-> cacheSource, tgt |-> target] \in mounts'
                   /\ cacheTarget' = target
             /\ ret' # Nil =>
                   /\ ~trace'[n].ok /\ ret' = InitRootSteps[n]
                   /\ mounts' = mounts]_vars

C13_InitRootFailedAfterSuccess ==
    /\ op = "InitRoot" /\ ret = "symlink var/lock"
    /\ [path |-> Join(root, "var/lock"), link |-> "../run/lock"] \in fsys
    /\ [path |-> Join(root, "var/run"), link |-> "../run"] \in fsys
    /\ [src |-> cacheSource, tgt |-> CacheMountPoint] \in mounts

\* C15: a CreateSquashfs called with a compression type other than gzip
\* and xz has returned an error and spawned no process.
C15_UnknownCompressionSpawnsNothing ==
    (dcall.fn = "CreateSquashfs"
       /\ dcall.compressionType \notin {CompressionGzip, CompressionXZ})
        => dcall.err # Nil /\ spawned = <<>>

C15_UnknownCompressionRejected ==
    /\ dcall.fn = "CreateSquashfs"
    /\ dcall.compressionType = "lz4"
    /\ dcall.err = "Unknown compression type"
    /\ spawned = <<>>

\* C16: the process CreateSquashfs spawns has the parent directory of
\* outputFile's absolute path as its working directory.
C16_ToolRunsInOutputDirectory ==
    (dcall.fn = "CreateSquashfs" /\ spawned # <<>>)
        => spawned[1].dir = Dir(Abs(dcall.outputFile))

\* The registries as the init function of package disk leaves them.
RegistryAfterInit ==
    /\ filesystemCommands = [fs \in {"ext4"} |-> "formatExt4"]
    /\ checkCommands = [fs \in {"ext4"} |-> "checkExt4"]

\* The commands of a sequence of spawned processes.
Spawned(procs) == [i \in 1..Len(procs) |-> procs[i].command]

\* C17: FormatAs and CheckFS with a name that is not registered return an
\* error that names it and spawn nothing; with a registered name they run
\* the function registered under it in their own registry, and nothing
\* else; no call changes a registry.
C17_RegistryDispatch ==
    [][/\ RegistryAfterInit /\ RegistryAfterInit'
       /\ dcall'.fn \in {"FormatAs", "CheckFS"} =>
            LET registry == IF dcall'.fn = "FormatAs" THEN filesystemCommands
                            ELSE checkCommands
                fs == dcall'.filesystem
            IN  IF fs \notin DOMAIN registry
                THEN /\ spawned' = <<>>
                     /\ dcall'.err # Nil /\ dcall'.err[2] = fs
                ELSE /\ dcall'.command = registry[fs]
                     /\ \E n \in 0..2 :
                          Spawned(spawned') =
                              SubSeq(Spawned(CommandsOf(registry[fs],
                                                        dcall'.filename)), 1, n)
                     /\ \A i \in 1..Len(spawned') :
                          spawned'[i].args
                              = CommandsOf(registry[fs], dcall'.filename)[i].args]_vars

C17_UnregisteredAfterRegistered ==
    /\ dcall.fn = "CheckFS" /\ dcall.filesystem = "btrfs"
    /\ dcall.err = <<"Cannot check with unknown filesystem", "btrfs">>
    /\ spawned = <<>>
    /\ \E f \in FileNames : files[f] # NoFile

\* nMegabytes in the range CreateSparseFile supports: not negative, and
\* nMegabytes * 1,000,000 fits the int it is computed in.
Supported(n) ==
    n >= 0 /\ n * (1000000 \div Block) < 2 ^ (IntBits - 1 - BlockBits)

\* C19: a CreateSparseFile(filename, n) that returned nil, n in the
\* supported range, has left filename with a logical size of n * 1,000,000
\* bytes, whatever was at filename before.
C19_SparseFileSize ==
    (dcall.fn = "CreateSparseFile" /\ dcall.err = Nil /\ Supported(dcall.n))
        => files[dcall.filename] = dcall.n * 1000000

C19_ExistingFileTruncated ==
    /\ dcall.fn = "CreateSparseFile" /\ dcall.err = Nil
    /\ dcall.n = 10 /\ dcall.before = 2147 * 1000000
    /\ files[dcall.filename] = 10 * 1000000

\* C18: while one build runs, nothing it does changes the other build's
\* flag, root or cache target, nor the streams the other build's commands
\* run with.
C18_BuildsShareNoState ==
    [][me' = me =>
         /\ other'.dbusActive = other.dbusActive
         /\ other'.root = other.root
         /\ other'.cacheTarget = other.cacheTarget
         /\ \A b \in Builds \ {me} : StreamsOf(b)' = StreamsOf(b)]_vars

====
